---- MODULE Spec2Model ----
(***************************************************************************)
(* Model of the Nuxt + Coveo Headless demo application.                     *)
(*                                                                         *)
(* The repository contains the glue between Vue components and the         *)
(* @coveo/headless library: the engine composable (singleton engine        *)
(* construction), the controller factories, and the components' handlers   *)
(* and subscriptions.  The library itself (engine reducer, transport,      *)
(* controllers' internals) is an external dependency: it is modelled as    *)
(* the environment.  What the components read from a controller's state    *)
(* is an input chosen from small sets at each notification; what the       *)
(* components ask of the library is recorded, in order, in `calls`.        *)
(***************************************************************************)
EXTENDS Integers, Sequences, FiniteSets, TLC

\* ---- bounds ----
MaxCalls  == 2      \* recorded library invocations
MaxUses   == 3      \* calls of useCoveoEngine over a session
MaxPageNo == 2      \* page numbers a pager snapshot may show
MaxOpened == 2      \* recorded document openings
MaxTimers == 1      \* pending blur timeouts of the search box

\* ---- values ----
NoEngine  == [built |-> FALSE, searchHub |-> "", pipeline |-> ""]
Undefined == ""                       \* undefined / empty string: falsy
OptionValues == {Undefined, "hub"}
Credentials  == {Undefined, "set"}
Queries      == {"", "coffee"}
FacetValues  == {"pdf", "html"}
ResultIds    == {"r1", "r2"}
Texts        == {"", "co"}
SuggestionValues == {"coffee", "cocoa"}

VARIABLES
  isClient,          \* import.meta.client
  organizationId,    \* config.public.coveoOrganizationId
  apiKey,            \* config.public.coveoApiKey
  engineInstance,    \* module-level singleton (NoEngine = null)
  uses,              \* number of useCoveoEngine calls so far
  builds,            \* number of buildSearchEngine calls that returned
  warnings,          \* console.warn calls of initEngine
  errors,            \* console.error calls of initEngine
  calls,             \* library invocations made by the application, in order
  page,              \* index.vue: [phase, engine]
  pagerC,            \* Pager.vue: phase, controller, subscription and refs
  dym,               \* DidYouMean.vue: phase, controller, subscription, refs
  facetC,            \* Facet.vue: phase, controller, subscription and refs
  resultList,        \* ResultList.vue: phase, controller, engine and refs
  opened,            \* documents the browser opened from a result, in order
  lastUse,           \* latest useCoveoEngine call: its options and result
  searchBox,         \* SearchBox.vue: phase, controller, refs, blur timers
  sortC,             \* SortDropdown.vue: phase, controller, selectedSort
  summary            \* QuerySummary.vue: phase, controller, subscription, refs

envVars    == <<isClient, organizationId, apiKey>>
engineVars == <<engineInstance, uses, builds, warnings, errors, lastUse>>
resultVars == <<resultList, opened>>
newVars    == <<searchBox, sortC, summary>>
vars == <<isClient, organizationId, apiKey, engineInstance, uses, builds,
          warnings, errors, calls, page, pagerC, dym, facetC, resultList,
          opened, lastUse, searchBox, sortC, summary>>

\* ---- useCoveoEngine / initEngine ----

\* JavaScript `a || b` on strings: the first operand unless it is falsy.
OrElse(a, b) == IF a = Undefined THEN b ELSE a

\* engineConfig built by initEngine from the options of the first caller.
EngineConfig(options) ==
  [built |-> TRUE,
   searchHub |-> OrElse(options.searchHub, "NuxtDemo"),
   pipeline |-> options.pipeline]

\* initEngine() without the "return existing instance" check.
InitEngineRebuilds(options, throws, engine) ==
  /\ uses < MaxUses
  /\ uses' = uses + 1
  /\ IF ~isClient
       THEN /\ engine = NoEngine
            /\ UNCHANGED <<engineInstance, builds, warnings, errors>>
     ELSE IF organizationId = Undefined \/ apiKey = Undefined
       THEN /\ engine = NoEngine
            /\ warnings' = warnings + 1
            /\ UNCHANGED <<engineInstance, builds, errors>>
     ELSE IF throws
       THEN /\ engine = NoEngine
            /\ errors' = errors + 1
            /\ UNCHANGED <<engineInstance, builds, warnings>>
     ELSE /\ engine = EngineConfig(options)
          /\ engineInstance' = engine
          /\ builds' = builds + 1
          /\ UNCHANGED <<warnings, errors>>

\* initEngine(): the value it returns and its effects on the module state.
\* `throws` is whether buildSearchEngine throws (decided by the library).
InitEngine(options, throws, engine) ==
  /\ uses < MaxUses
  /\ uses' = uses + 1
  /\ IF ~isClient
       THEN /\ engine = NoEngine
            /\ UNCHANGED <<engineInstance, builds, warnings, errors>>
     ELSE IF engineInstance.built
       THEN /\ engine = engineInstance
            /\ UNCHANGED <<engineInstance, builds, warnings, errors>>
     ELSE IF organizationId = Undefined \/ apiKey = Undefined
       THEN /\ engine = NoEngine
            /\ warnings' = warnings + 1
            /\ UNCHANGED <<engineInstance, builds, errors>>
     ELSE IF throws
       THEN /\ engine = NoEngine
            /\ errors' = errors + 1
            /\ UNCHANGED <<engineInstance, builds, warnings>>
     ELSE /\ engine = EngineConfig(options)
          /\ engineInstance' = engine
          /\ builds' = builds + 1
          /\ UNCHANGED <<warnings, errors>>

EngineValues ==
  {NoEngine} \cup {EngineConfig([searchHub |-> h, pipeline |-> p]) :
                     h \in OptionValues, p \in OptionValues}

NoOptions == [searchHub |-> Undefined, pipeline |-> Undefined]

\* useCoveoEngine(options): `engine` is the instance the caller captures.
UseCoveoEngine(options, engine) ==
  /\ \E throws \in BOOLEAN : InitEngine(options, throws, engine)
  /\ lastUse' = [options |-> options, engine |-> engine]

Options == [searchHub : OptionValues, pipeline : OptionValues]

\* Any caller of the exported composable, with the options it chooses.
UseEngine ==
  /\ \E options \in Options, engine \in EngineValues :
       UseCoveoEngine(options, engine)
  /\ UNCHANGED <<envVars, calls, page, pagerC, dym, facetC, resultVars,
                 newVars>>

\* A library invocation made through a controller or the engine.
Invoke(method, arg) ==
  /\ Len(calls) < MaxCalls
  /\ calls' = Append(calls, [method |-> method, arg |-> arg])

\* ---- pages/index.vue ----

\* <script setup>: const { executeFirstSearch, isReady } = useCoveoEngine()
PageSetup ==
  /\ page.phase \in {"none", "unmounted"}
  /\ \E engine \in EngineValues :
       /\ UseCoveoEngine(NoOptions, engine)
       /\ page' = [phase |-> "setup", engine |-> engine]
  /\ UNCHANGED <<envVars, calls, pagerC, dym, facetC, resultVars, newVars>>

\* executeFirstSearch of the composable, for the engine the caller captured.
ExecuteFirstSearch(engine) ==
  IF engine.built
    THEN Invoke("engine.executeFirstSearch", "")
    ELSE UNCHANGED calls

\* onMounted(() => { if (isReady.value) executeFirstSearch() })
PageMounted ==
  /\ isClient
  /\ page.phase = "setup"
  /\ page' = [page EXCEPT !.phase = "mounted"]
  /\ IF page.engine.built
       THEN ExecuteFirstSearch(page.engine)
       ELSE UNCHANGED calls
  /\ UNCHANGED <<envVars, engineVars, pagerC, dym, facetC, resultVars, newVars>>

PageUnmounted ==
  /\ page.phase = "mounted"
  /\ page' = [page EXCEPT !.phase = "unmounted"]
  /\ UNCHANGED <<envVars, engineVars, calls, pagerC, dym, facetC, resultVars, newVars>>

\* ---- composables/useSearchControllers.ts ----

\* create*() without the "if (!engine) return null" check.
CreateControllerUnchecked(engine) == TRUE

\* create*(): null without an engine, a controller of the library otherwise.
CreateController(engine) == engine.built

\* ---- components/search/Pager.vue ----

PageWindows == {[i \in 1..k |-> i] : k \in 0..MaxPageNo}

\* What pager.state may hold when the listener reads it.
PagerSnapshots ==
  [currentPage : 1..MaxPageNo, currentPages : PageWindows,
   hasNextPage : BOOLEAN, hasPreviousPage : BOOLEAN, maxPage : 1..MaxPageNo]

PagerRefsInit ==
  [currentPage |-> 1, currentPages |-> <<>>, hasNextPage |-> FALSE,
   hasPreviousPage |-> FALSE, maxPage |-> 1]

PagerSetup ==
  /\ isClient
  /\ pagerC.phase \in {"none", "unmounted"}
  /\ \E engine \in EngineValues :
       /\ UseCoveoEngine(NoOptions, engine)
       /\ pagerC' = [phase |-> "setup", ctl |-> CreateController(engine),
                     sub |-> FALSE, refs |-> PagerRefsInit]
  /\ UNCHANGED <<envVars, calls, page, dym, facetC, resultVars, newVars>>

\* onMounted: subscribe when the controller exists.
PagerMounted ==
  /\ pagerC.phase = "setup"
  /\ pagerC' = [pagerC EXCEPT !.phase = "mounted", !.sub = pagerC.ctl]
  /\ UNCHANGED <<envVars, engineVars, calls, page, dym, facetC, resultVars, newVars>>

\* The subscribed listener, run by the library: copy pager.state to the refs.
PagerListener ==
  /\ pagerC.sub
  /\ \E s \in PagerSnapshots : pagerC' = [pagerC EXCEPT !.refs = s]
  /\ UNCHANGED <<envVars, engineVars, calls, page, dym, facetC, resultVars, newVars>>

\* onUnmounted that does not call unsubscribe.
PagerUnmountedKeepsSubscription ==
  /\ pagerC.phase = "mounted"
  /\ pagerC' = [pagerC EXCEPT !.phase = "unmounted"]
  /\ UNCHANGED <<envVars, engineVars, calls, page, dym, facetC, resultVars,
                 newVars>>

\* onUnmounted: unsubscribe when a subscription was made.
PagerUnmounted ==
  /\ pagerC.phase = "mounted"
  /\ pagerC' = [pagerC EXCEPT !.phase = "unmounted", !.sub = FALSE]
  /\ UNCHANGED <<envVars, engineVars, calls, page, dym, facetC, resultVars, newVars>>

\* computed hasPagination: the <nav> is rendered only when it holds.
hasPagination == pagerC.phase = "mounted" /\ pagerC.refs.maxPage > 1

goToPage ==
  /\ hasPagination
  /\ \E i \in 1..Len(pagerC.refs.currentPages) :
       IF pagerC.ctl
         THEN Invoke("pager.selectPage", ToString(pagerC.refs.currentPages[i]))
         ELSE UNCHANGED calls
  /\ UNCHANGED <<envVars, engineVars, page, pagerC, dym, facetC, resultVars, newVars>>

goToNext ==
  /\ hasPagination
  /\ IF pagerC.ctl /\ pagerC.refs.hasNextPage
       THEN Invoke("pager.nextPage", "")
       ELSE UNCHANGED calls
  /\ UNCHANGED <<envVars, engineVars, page, pagerC, dym, facetC, resultVars, newVars>>

goToPrevious ==
  /\ hasPagination
  /\ IF pagerC.ctl /\ pagerC.refs.hasPreviousPage
       THEN Invoke("pager.previousPage", "")
       ELSE UNCHANGED calls
  /\ UNCHANGED <<envVars, engineVars, page, pagerC, dym, facetC, resultVars, newVars>>

\* ---- components/search/DidYouMean.vue ----

\* What didYouMean.state may hold when the listener reads it; the refs
\* after the listener: correctedQuery is queryCorrection?.correctedQuery || ''.
DidYouMeanSnapshots ==
  [hasCorrection : BOOLEAN, wasAutomaticallyCorrected : BOOLEAN,
   correctedQuery : Queries, originalQuery : Queries]

DidYouMeanRefsInit ==
  [hasCorrection |-> FALSE, wasAutomaticallyCorrected |-> FALSE,
   correctedQuery |-> "", originalQuery |-> ""]

DidYouMeanSetup ==
  /\ isClient
  /\ dym.phase \in {"none", "unmounted"}
  /\ \E engine \in EngineValues :
       /\ UseCoveoEngine(NoOptions, engine)
       /\ dym' = [phase |-> "setup", ctl |-> CreateController(engine),
                  sub |-> FALSE, refs |-> DidYouMeanRefsInit,
                  last |-> "setup"]
  /\ UNCHANGED <<envVars, calls, page, pagerC, facetC, resultVars, newVars>>

DidYouMeanMounted ==
  /\ dym.phase = "setup"
  /\ dym' = [dym EXCEPT !.phase = "mounted", !.sub = dym.ctl,
                        !.last = "mounted"]
  /\ UNCHANGED <<envVars, engineVars, calls, page, pagerC, facetC, resultVars, newVars>>

DidYouMeanListener ==
  /\ dym.sub
  /\ \E s \in DidYouMeanSnapshots :
       dym' = [dym EXCEPT !.refs = s, !.last = "listener"]
  /\ UNCHANGED <<envVars, engineVars, calls, page, pagerC, facetC, resultVars, newVars>>

DidYouMeanUnmounted ==
  /\ dym.phase = "mounted"
  /\ dym' = [dym EXCEPT !.phase = "unmounted", !.sub = FALSE,
                        !.last = "unmounted"]
  /\ UNCHANGED <<envVars, engineVars, calls, page, pagerC, facetC, resultVars, newVars>>

\* The "Did you mean" button: rendered when a correction is shown that was
\* not applied automatically.
applyCorrection ==
  /\ dym.phase = "mounted"
  /\ dym.refs.hasCorrection /\ ~dym.refs.wasAutomaticallyCorrected
  /\ dym' = [dym EXCEPT !.last = "applyCorrection"]
  /\ IF dym.ctl
       THEN Invoke("didYouMean.applyCorrection", "")
       ELSE UNCHANGED calls
  /\ UNCHANGED <<envVars, engineVars, page, pagerC, facetC, resultVars,
                 newVars>>

\* A searchOriginal that re-applies the correction.
SearchOriginalBodyApplies == Invoke("didYouMean.applyCorrection", "")

\* What the body of searchOriginal does when the controller exists: nothing
\* (the body holds only a comment).
SearchOriginalBody == UNCHANGED calls

\* The "Search for the original instead" button: rendered after an automatic
\* correction.
searchOriginal ==
  /\ dym.phase = "mounted"
  /\ dym.refs.hasCorrection /\ dym.refs.wasAutomaticallyCorrected
  /\ dym' = [dym EXCEPT !.last = "searchOriginal"]
  /\ IF dym.ctl THEN SearchOriginalBody ELSE UNCHANGED calls
  /\ UNCHANGED <<envVars, engineVars, page, pagerC, facetC, resultVars,
                 newVars>>

\* ---- components/search/Facet.vue ----

\* What facet.state may hold when the listener reads it: for each listed
\* value its state, and the two show-more/less flags.
FacetValueLists ==
  UNION {[vs -> {"idle", "selected"}] : vs \in SUBSET FacetValues}

FacetSnapshots ==
  [values : FacetValueLists, canShowMore : BOOLEAN, canShowLess : BOOLEAN]

FacetRefsInit ==
  [values |-> <<>>, canShowMore |-> FALSE, canShowLess |-> FALSE]

FacetSetup ==
  /\ isClient
  /\ facetC.phase \in {"none", "unmounted"}
  /\ \E engine \in EngineValues :
       /\ UseCoveoEngine(NoOptions, engine)
       /\ facetC' = [phase |-> "setup", ctl |-> CreateController(engine),
                     sub |-> FALSE, isExpanded |-> TRUE,
                     refs |-> FacetRefsInit]
  /\ UNCHANGED <<envVars, calls, page, pagerC, dym, resultVars, newVars>>

FacetMounted ==
  /\ facetC.phase = "setup"
  /\ facetC' = [facetC EXCEPT !.phase = "mounted", !.sub = facetC.ctl]
  /\ UNCHANGED <<envVars, engineVars, calls, page, pagerC, dym, resultVars, newVars>>

FacetListener ==
  /\ facetC.sub
  /\ \E s \in FacetSnapshots : facetC' = [facetC EXCEPT !.refs = s]
  /\ UNCHANGED <<envVars, engineVars, calls, page, pagerC, dym, resultVars, newVars>>

FacetUnmounted ==
  /\ facetC.phase = "mounted"
  /\ facetC' = [facetC EXCEPT !.phase = "unmounted", !.sub = FALSE]
  /\ UNCHANGED <<envVars, engineVars, calls, page, pagerC, dym, resultVars, newVars>>

\* computed hasValues / hasActiveValues
hasValues == DOMAIN facetC.refs.values # {}
hasActiveValues ==
  \E v \in DOMAIN facetC.refs.values : facetC.refs.values[v] = "selected"

\* The header button: isExpanded = !isExpanded
FacetToggleExpanded ==
  /\ facetC.phase = "mounted" /\ hasValues
  /\ facetC' = [facetC EXCEPT !.isExpanded = ~facetC.isExpanded]
  /\ UNCHANGED <<envVars, engineVars, calls, page, pagerC, dym, resultVars, newVars>>

\* A value's checkbox: rendered for each displayed value of an expanded facet.
toggleValue ==
  /\ facetC.phase = "mounted" /\ hasValues /\ facetC.isExpanded
  /\ \E v \in DOMAIN facetC.refs.values :
       IF facetC.ctl
         THEN Invoke("facet.toggleSelect", v)
         ELSE UNCHANGED calls
  /\ UNCHANGED <<envVars, engineVars, page, pagerC, dym, facetC, resultVars, newVars>>

\* The "Clear" button: rendered when some value is selected.
clearSelections ==
  /\ facetC.phase = "mounted" /\ hasValues /\ facetC.isExpanded
  /\ hasActiveValues
  /\ IF facetC.ctl
       THEN Invoke("facet.deselectAll", "")
       ELSE UNCHANGED calls
  /\ UNCHANGED <<envVars, engineVars, page, pagerC, dym, facetC, resultVars, newVars>>

\* The "Show more/less" button: rendered when either flag holds.
toggleShowMore ==
  /\ facetC.phase = "mounted" /\ hasValues /\ facetC.isExpanded
  /\ facetC.refs.canShowMore \/ facetC.refs.canShowLess
  /\ IF ~facetC.ctl
       THEN UNCHANGED calls
     ELSE IF facetC.refs.canShowMore
       THEN Invoke("facet.showMoreValues", "")
     ELSE IF facetC.refs.canShowLess
       THEN Invoke("facet.showLessValues", "")
     ELSE UNCHANGED calls
  /\ UNCHANGED <<envVars, engineVars, page, pagerC, dym, facetC, resultVars, newVars>>

\* ---- components/search/ResultList.vue, ResultItem.vue ----

\* Result lists a response may carry: distinct results, identified by uniqueId.
ResultLists ==
  {<<>>} \cup {<<r>> : r \in ResultIds}
         \cup {p \in ResultIds \X ResultIds : p[1] # p[2]}

\* What resultList.state may hold when the listener reads it; hasSearched is
\* hasResults || searchResponseId !== ''.
ResultListSnapshots ==
  [results : ResultLists, isLoading : BOOLEAN, hasSearched : BOOLEAN]

ResultListRefsInit ==
  [results |-> <<>>, isLoading |-> FALSE, hasSearched |-> FALSE]

\* const { createResultList, engine } = useSearchControllers()
\* const resultList = createResultList()
ResultListControllers ==
  /\ isClient
  /\ resultList.phase \in {"none", "unmounted"}
  /\ \E engine \in EngineValues :
       /\ UseCoveoEngine(NoOptions, engine)
       /\ resultList' = [phase |-> "controllers",
                         ctl |-> CreateController(engine), sub |-> FALSE,
                         engine |-> NoEngine, refs |-> ResultListRefsInit]
  /\ UNCHANGED <<envVars, calls, page, pagerC, dym, facetC, opened, newVars>>

\* const { logDocumentClick } = useCoveoAnalytics(): its own useCoveoEngine().
ResultListAnalytics ==
  /\ resultList.phase = "controllers"
  /\ \E engine \in EngineValues :
       /\ UseCoveoEngine(NoOptions, engine)
       /\ resultList' = [resultList EXCEPT !.phase = "setup",
                                           !.engine = engine]
  /\ UNCHANGED <<envVars, calls, page, pagerC, dym, facetC, opened, newVars>>

ResultListMounted ==
  /\ resultList.phase = "setup"
  /\ resultList' = [resultList EXCEPT !.phase = "mounted",
                                      !.sub = resultList.ctl]
  /\ UNCHANGED <<envVars, engineVars, calls, page, pagerC, dym, facetC,
                 opened, newVars>>

ResultListListener ==
  /\ resultList.sub
  /\ \E s \in ResultListSnapshots :
       resultList' = [resultList EXCEPT !.refs = s]
  /\ UNCHANGED <<envVars, engineVars, calls, page, pagerC, dym, facetC,
                 opened, newVars>>

ResultListUnmounted ==
  /\ resultList.phase = "mounted"
  /\ resultList' = [resultList EXCEPT !.phase = "unmounted", !.sub = FALSE]
  /\ UNCHANGED <<envVars, engineVars, calls, page, pagerC, dym, facetC,
                 opened, newVars>>

\* The results for which a ResultItem is rendered: none while loading.
RenderedResults ==
  IF resultList.phase = "mounted" /\ ~resultList.refs.isLoading
    THEN {resultList.refs.results[i] :
            i \in 1..Len(resultList.refs.results)}
    ELSE {}

\* useCoveoAnalytics logDocumentClick(result)
logDocumentClick(result) ==
  IF ~resultList.engine.built
    THEN UNCHANGED calls
    ELSE Invoke("engine.dispatch(logDocumentOpen)", result)

\* A click on the result card outside the title link: ResultItem handleClick
\* emits 'click', ResultList trackClick logs it.  Nothing is opened.
handleClick ==
  /\ \E result \in RenderedResults : logDocumentClick(result)
  /\ UNCHANGED <<envVars, engineVars, page, pagerC, dym, facetC, resultVars, newVars>>

\* A click on the title link <a :href="result.clickUri" target="_blank"
\* @click.stop>: the browser opens the document; the click does not reach
\* the card's handler.
titleLinkClick ==
  /\ Len(opened) < MaxOpened
  /\ \E result \in RenderedResults : opened' = Append(opened, result)
  /\ UNCHANGED <<envVars, engineVars, calls, page, pagerC, dym, facetC,
                 resultList, newVars>>

\* ---- components/search/SearchBox.vue ----

\* Suggestion lists searchBox.state.suggestions may hold: distinct rawValues.
SuggestionLists ==
  {<<>>} \cup {<<v>> : v \in SuggestionValues}
         \cup {p \in SuggestionValues \X SuggestionValues : p[1] # p[2]}

SearchBoxInit(phase, ctl) ==
  [phase |-> phase, ctl |-> ctl, sub |-> FALSE, query |-> "",
   suggestions |-> <<>>, showSuggestions |-> FALSE, selectedIndex |-> -1,
   focused |-> FALSE, timers |-> 0, last |-> phase]

\* createSearchBox({ numberOfSuggestions: 5 })
SearchBoxSetup ==
  /\ isClient
  /\ searchBox.phase \in {"none", "unmounted"}
  /\ \E engine \in EngineValues :
       /\ UseCoveoEngine(NoOptions, engine)
       /\ searchBox' = SearchBoxInit("setup", CreateController(engine))
  /\ UNCHANGED <<envVars, calls, page, pagerC, dym, facetC, resultVars,
                 sortC, summary>>

SearchBoxMounted ==
  /\ searchBox.phase = "setup"
  /\ searchBox' = [searchBox EXCEPT !.phase = "mounted",
                                    !.sub = searchBox.ctl,
                                    !.last = "mounted"]
  /\ UNCHANGED <<envVars, engineVars, calls, page, pagerC, dym, facetC,
                 resultVars, sortC, summary>>

\* The subscribed listener: suggestions.value = searchBox.state.suggestions
SearchBoxListener ==
  /\ searchBox.sub
  /\ \E l \in SuggestionLists :
       searchBox' = [searchBox EXCEPT !.suggestions = l, !.last = "listener"]
  /\ UNCHANGED <<envVars, engineVars, calls, page, pagerC, dym, facetC,
                 resultVars, sortC, summary>>

SearchBoxUnmounted ==
  /\ searchBox.phase = "mounted"
  /\ searchBox' = [searchBox EXCEPT !.phase = "unmounted", !.sub = FALSE,
                                    !.focused = FALSE, !.last = "unmounted"]
  /\ UNCHANGED <<envVars, engineVars, calls, page, pagerC, dym, facetC,
                 resultVars, sortC, summary>>

\* @focus="showSuggestions = true"
onFocus ==
  /\ searchBox.phase = "mounted" /\ ~searchBox.focused
  /\ searchBox' = [searchBox EXCEPT !.focused = TRUE,
                                    !.showSuggestions = TRUE,
                                    !.last = "onFocus"]
  /\ UNCHANGED <<envVars, engineVars, calls, page, pagerC, dym, facetC,
                 resultVars, sortC, summary>>

\* onBlur: setTimeout(() => { ... }, 200); the timeout is never cleared.
onBlur ==
  /\ searchBox.phase = "mounted" /\ searchBox.focused
  /\ searchBox.timers < MaxTimers
  /\ searchBox' = [searchBox EXCEPT !.focused = FALSE,
                                    !.timers = searchBox.timers + 1,
                                    !.last = "onBlur"]
  /\ UNCHANGED <<envVars, engineVars, calls, page, pagerC, dym, facetC,
                 resultVars, sortC, summary>>

\* The callback of onBlur's timeout, 200 ms after the blur.
onBlurTimeout ==
  /\ searchBox.timers > 0
  /\ searchBox' = [searchBox EXCEPT !.timers = searchBox.timers - 1,
                                    !.showSuggestions = FALSE,
                                    !.selectedIndex = -1,
                                    !.last = "onBlurTimeout"]
  /\ UNCHANGED <<envVars, engineVars, calls, page, pagerC, dym, facetC,
                 resultVars, sortC, summary>>

\* Typing: v-model sets query, then onInput runs.
onInput ==
  /\ searchBox.phase = "mounted" /\ searchBox.focused
  /\ \E text \in Texts \ {searchBox.query} :
       IF searchBox.ctl
         THEN /\ Len(calls) + 2 <= MaxCalls
              /\ calls' = calls \o
                   <<[method |-> "searchBox.updateText", arg |-> text],
                     [method |-> "searchBox.showSuggestions", arg |-> ""]>>
              /\ searchBox' = [searchBox EXCEPT !.query = text,
                                                !.selectedIndex = -1,
                                                !.last = "onInput"]
         ELSE /\ UNCHANGED calls
              /\ searchBox' = [searchBox EXCEPT !.query = text,
                                                !.last = "onInput"]
  /\ UNCHANGED <<envVars, engineVars, page, pagerC, dym, facetC, resultVars,
                 sortC, summary>>

\* suggestions.value[selectedIndex.value], for the 0-based index of the code;
\* Undefined when there is no such element.
SuggestionAt(list, index) ==
  IF index >= 0 /\ index < Len(list) THEN list[index + 1] ELSE Undefined

\* onSubmit without the `return` after selectSuggestion.
OnSubmitCallsNoReturn(box) ==
  LET selectedSuggestion == SuggestionAt(box.suggestions, box.selectedIndex)
  IN  IF box.selectedIndex >= 0 /\ selectedSuggestion # Undefined
        THEN <<[method |-> "searchBox.selectSuggestion",
                arg |-> selectedSuggestion],
               [method |-> "searchBox.submit", arg |-> ""]>>
        ELSE <<[method |-> "searchBox.submit", arg |-> ""]>>

\* The library calls onSubmit makes when the controller exists.
OnSubmitCalls(box) ==
  LET selectedSuggestion == SuggestionAt(box.suggestions, box.selectedIndex)
  IN  IF box.selectedIndex >= 0 /\ selectedSuggestion # Undefined
        THEN <<[method |-> "searchBox.selectSuggestion",
                arg |-> selectedSuggestion]>>
        ELSE <<[method |-> "searchBox.submit", arg |-> ""]>>

\* The Enter key or the Search button.
onSubmit ==
  /\ searchBox.phase = "mounted"
  /\ IF searchBox.ctl
       THEN LET selectedSuggestion ==
                  SuggestionAt(searchBox.suggestions, searchBox.selectedIndex)
            IN  /\ Len(calls) + Len(OnSubmitCalls(searchBox)) <= MaxCalls
                /\ calls' = calls \o OnSubmitCalls(searchBox)
                /\ searchBox' =
                     [searchBox EXCEPT
                        !.query = IF searchBox.selectedIndex >= 0
                                     /\ selectedSuggestion # Undefined
                                    THEN selectedSuggestion
                                    ELSE searchBox.query,
                        !.showSuggestions = FALSE,
                        !.last = "onSubmit"]
       ELSE /\ UNCHANGED calls
            /\ searchBox' = [searchBox EXCEPT !.last = "onSubmit"]
  /\ UNCHANGED <<envVars, engineVars, page, pagerC, dym, facetC, resultVars,
                 sortC, summary>>

\* @mousedown.prevent on a suggestion of the rendered dropdown.
selectSuggestion ==
  /\ searchBox.phase = "mounted"
  /\ searchBox.showSuggestions /\ Len(searchBox.suggestions) > 0
  /\ \E i \in 1..Len(searchBox.suggestions) :
       IF searchBox.ctl
         THEN /\ Invoke("searchBox.selectSuggestion", searchBox.suggestions[i])
              /\ searchBox' = [searchBox EXCEPT
                                 !.query = searchBox.suggestions[i],
                                 !.showSuggestions = FALSE,
                                 !.last = "selectSuggestion"]
         ELSE /\ UNCHANGED calls
              /\ searchBox' = [searchBox EXCEPT !.last = "selectSuggestion"]
  /\ UNCHANGED <<envVars, engineVars, page, pagerC, dym, facetC, resultVars,
                 sortC, summary>>

\* navigateSuggestion(direction): selectedIndex after the arrow key.
NavigatedIndex(list, index, direction) ==
  LET max == Len(list) - 1
      newIndex == index + direction
  IN  IF newIndex < 0 THEN max
      ELSE IF newIndex > max THEN 0
      ELSE newIndex

\* @keydown.down / @keydown.up on the focused input.
navigateSuggestion ==
  /\ searchBox.phase = "mounted" /\ searchBox.focused
  /\ \E direction \in {1, -1} :
       searchBox' =
         [searchBox EXCEPT
            !.selectedIndex = NavigatedIndex(searchBox.suggestions,
                                             searchBox.selectedIndex,
                                             direction),
            !.last = "navigateSuggestion"]
  /\ UNCHANGED <<envVars, engineVars, calls, page, pagerC, dym, facetC,
                 resultVars, sortC, summary>>

\* ---- components/search/SortDropdown.vue ----

SortKeys == {"relevance", "date-desc", "date-asc"}

SortSetup ==
  /\ isClient
  /\ sortC.phase \in {"none", "unmounted"}
  /\ \E engine \in EngineValues :
       /\ UseCoveoEngine(NoOptions, engine)
       /\ sortC' = [phase |-> "mounted", ctl |-> CreateController(engine),
                    selectedSort |-> "relevance"]
  /\ UNCHANGED <<envVars, calls, page, pagerC, dym, facetC, resultVars,
                 searchBox, summary>>

SortUnmounted ==
  /\ sortC.phase = "mounted"
  /\ sortC' = [sortC EXCEPT !.phase = "unmounted"]
  /\ UNCHANGED <<envVars, engineVars, calls, page, pagerC, dym, facetC,
                 resultVars, searchBox, summary>>

\* The <select>: v-model sets selectedSort, then onSortChange runs; every
\* key has a criterion in sortCriteria.
onSortChange ==
  /\ sortC.phase = "mounted"
  /\ \E key \in SortKeys \ {sortC.selectedSort} :
       /\ sortC' = [sortC EXCEPT !.selectedSort = key]
       /\ IF sortC.ctl
            THEN Invoke("sort.sortBy", key)
            ELSE UNCHANGED calls
  /\ UNCHANGED <<envVars, engineVars, page, pagerC, dym, facetC, resultVars,
                 searchBox, summary>>

\* ---- QuerySummary component (useSearchControllers.ts:205-302) ----

\* What querySummary.state may hold when the listener reads it.
SummarySnapshots ==
  [total : 0..1, firstResult : 0..1, lastResult : 0..1, query : Texts,
   durationInMilliseconds : {0, 120}, hasResults : BOOLEAN]

SummaryRefsInit ==
  [total |-> 0, firstResult |-> 0, lastResult |-> 0, query |-> "",
   durationInMilliseconds |-> 0, hasResults |-> FALSE]

SummarySetup ==
  /\ isClient
  /\ summary.phase \in {"none", "unmounted"}
  /\ \E engine \in EngineValues :
       /\ UseCoveoEngine(NoOptions, engine)
       /\ summary' = [phase |-> "setup", ctl |-> CreateController(engine),
                      sub |-> FALSE, refs |-> SummaryRefsInit]
  /\ UNCHANGED <<envVars, calls, page, pagerC, dym, facetC, resultVars,
                 searchBox, sortC>>

SummaryMounted ==
  /\ summary.phase = "setup"
  /\ summary' = [summary EXCEPT !.phase = "mounted", !.sub = summary.ctl]
  /\ UNCHANGED <<envVars, engineVars, calls, page, pagerC, dym, facetC,
                 resultVars, searchBox, sortC>>

SummaryListener ==
  /\ summary.sub
  /\ \E s \in SummarySnapshots : summary' = [summary EXCEPT !.refs = s]
  /\ UNCHANGED <<envVars, engineVars, calls, page, pagerC, dym, facetC,
                 resultVars, searchBox, sortC>>

SummaryUnmounted ==
  /\ summary.phase = "mounted"
  /\ summary' = [summary EXCEPT !.phase = "unmounted", !.sub = FALSE]
  /\ UNCHANGED <<envVars, engineVars, calls, page, pagerC, dym, facetC,
                 resultVars, searchBox, sortC>>

\* ---- specifications ----

Init ==
  /\ isClient \in BOOLEAN
  /\ organizationId \in Credentials
  /\ apiKey \in Credentials
  /\ engineInstance = NoEngine
  /\ uses = 0 /\ builds = 0 /\ warnings = 0 /\ errors = 0
  /\ calls = <<>>
  /\ page = [phase |-> "none", engine |-> NoEngine]
  /\ pagerC = [phase |-> "none", ctl |-> FALSE, sub |-> FALSE,
               refs |-> PagerRefsInit]
  /\ dym = [phase |-> "none", ctl |-> FALSE, sub |-> FALSE,
            refs |-> DidYouMeanRefsInit, last |-> ""]
  /\ facetC = [phase |-> "none", ctl |-> FALSE, sub |-> FALSE,
               isExpanded |-> TRUE, refs |-> FacetRefsInit]
  /\ resultList = [phase |-> "none", ctl |-> FALSE, sub |-> FALSE,
                   engine |-> NoEngine, refs |-> ResultListRefsInit]
  /\ opened = <<>>
  /\ lastUse = [options |-> NoOptions, engine |-> NoEngine]
  /\ searchBox = SearchBoxInit("none", FALSE)
  /\ sortC = [phase |-> "none", ctl |-> FALSE, selectedSort |-> "relevance"]
  /\ summary = [phase |-> "none", ctl |-> FALSE, sub |-> FALSE,
                refs |-> SummaryRefsInit]

NextPage == PageSetup \/ PageMounted \/ PageUnmounted

NextPager ==
  \/ PagerSetup \/ PagerMounted \/ PagerListener \/ PagerUnmounted
  \/ goToPage \/ goToNext \/ goToPrevious

NextDidYouMean ==
  \/ DidYouMeanSetup \/ DidYouMeanMounted \/ DidYouMeanListener
  \/ DidYouMeanUnmounted \/ applyCorrection \/ searchOriginal

NextFacet ==
  \/ FacetSetup \/ FacetMounted \/ FacetListener \/ FacetUnmounted
  \/ FacetToggleExpanded \/ toggleValue \/ clearSelections \/ toggleShowMore

NextResultList ==
  \/ ResultListControllers \/ ResultListAnalytics \/ ResultListMounted
  \/ ResultListListener \/ ResultListUnmounted
  \/ handleClick \/ titleLinkClick

NextSearchBox ==
  \/ SearchBoxSetup \/ SearchBoxMounted \/ SearchBoxListener
  \/ SearchBoxUnmounted \/ onFocus \/ onBlur \/ onBlurTimeout \/ onInput
  \/ onSubmit \/ selectSuggestion \/ navigateSuggestion

NextSort == SortSetup \/ SortUnmounted \/ onSortChange

NextSummary ==
  SummarySetup \/ SummaryMounted \/ SummaryListener \/ SummaryUnmounted

Next ==
  \/ UseEngine \/ NextPage \/ NextPager \/ NextDidYouMean \/ NextFacet
  \/ NextResultList \/ NextSearchBox \/ NextSort \/ NextSummary

Spec == Init /\ [][Next]_vars

\* Each component alone.
SpecPager      == Init /\ [][NextPager]_vars
SpecDidYouMean == Init /\ [][NextDidYouMean]_vars
SpecFacet      == Init /\ [][NextFacet]_vars
SpecResultList == Init /\ [][NextResultList]_vars
SpecSearchBox  == Init /\ [][NextSearchBox]_vars

\* Every component, each alone on the page: once one of them is created the
\* others stay uncreated.
Phases ==
  [page |-> page.phase, pager |-> pagerC.phase, dym |-> dym.phase,
   facet |-> facetC.phase, resultList |-> resultList.phase,
   searchBox |-> searchBox.phase, sort |-> sortC.phase,
   summary |-> summary.phase]

Alone(name) == \A other \in DOMAIN Phases \ {name} : Phases[other] = "none"

NextEach ==
  \/ Alone("page") /\ NextPage
  \/ Alone("pager") /\ NextPager
  \/ Alone("dym") /\ NextDidYouMean
  \/ Alone("facet") /\ NextFacet
  \/ Alone("resultList") /\ NextResultList
  \/ Alone("searchBox") /\ NextSearchBox
  \/ Alone("sort") /\ NextSort
  \/ Alone("summary") /\ NextSummary

SpecEach       == Init /\ [][NextEach]_vars

\* The composable with the index page and any other callers.
SpecEngine     == Init /\ [][UseEngine \/ NextPage]_vars

TypeOK ==
  /\ isClient \in BOOLEAN
  /\ engineInstance \in EngineValues
  /\ uses \in 0..MaxUses
  /\ Len(calls) <= MaxCalls
  /\ page.engine \in EngineValues

\* ---- result opens and click events ----

\* The logDocumentOpen dispatches made for a result, and the times the
\* browser opened it.
DispatchesFor(result) ==
  Cardinality({i \in 1..Len(calls) :
                 /\ calls[i].method = "engine.dispatch(logDocumentOpen)"
                 /\ calls[i].arg = result})

OpeningsOf(result) ==
  Cardinality({i \in 1..Len(opened) : opened[i] = result})

\* C20: every result open fires exactly one Click event for that result and
\* none is fired without an open: for each result, the logDocumentOpen
\* dispatches made for it are as many as the times it was opened.
OneClickEventPerOpen ==
  \A result \in ResultIds : DispatchesFor(result) = OpeningsOf(result)

\* ---- the engine composable ----

MissingCredentials == organizationId = Undefined \/ apiKey = Undefined

\* C21: with the organization id or the API key missing, no usable engine is
\* ever produced (the singleton stays null, the page is not ready, no search
\* is executed) and the misconfiguration is reported once, however many times
\* useCoveoEngine is called.
MisconfigurationReportedOnce ==
  MissingCredentials =>
    /\ ~engineInstance.built /\ ~lastUse.engine.built /\ ~page.engine.built
    /\ calls = <<>>
    /\ warnings <= 1

\* C22 as claimed: on the client with valid credentials, every call of
\* useCoveoEngine returns the one engine instance.
EveryCallReturnsTheEngine ==
  (isClient /\ ~MissingCredentials /\ uses > 0) =>
    /\ builds <= 1
    /\ lastUse.engine.built
    /\ lastUse.engine = engineInstance

\* C22 as amended: on the client with valid credentials at most one engine is
\* ever built, the built instance and its configuration never change whatever
\* options later callers pass, and every call returns that instance, or null
\* when buildSearchEngine threw during that call and no engine exists yet.
SingleEngine ==
  [][(isClient /\ ~MissingCredentials) =>
       /\ builds' <= 1
       /\ (engineInstance.built => engineInstance' = engineInstance)
       /\ (uses' # uses =>
             \/ /\ engineInstance'.built
                /\ lastUse'.engine = engineInstance'
             \/ /\ ~engineInstance'.built
                /\ lastUse'.engine = NoEngine
                /\ errors' = errors + 1)]_vars

\* A later caller passed another search hub and got the engine built first.
SingleEngineWitness ==
  /\ builds = 1 /\ uses >= 2
  /\ lastUse.options.searchHub = "hub"
  /\ engineInstance.searchHub = "NuxtDemo"
  /\ lastUse.engine = engineInstance

\* ---- the DidYouMean component ----

\* C25: searchOriginal is unimplemented: a click on "search for the original
\* instead" makes no library call and leaves the engine composable's state
\* and the component's refs, controller and subscription as they were.
SearchOriginalDoesNothing ==
  [][dym'.last = "searchOriginal" =>
       /\ calls' = calls
       /\ dym'.refs = dym.refs /\ dym'.ctl = dym.ctl /\ dym'.sub = dym.sub
       /\ dym'.phase = dym.phase
       /\ UNCHANGED engineVars]_vars

\* The button was clicked with a controller present and nothing was called.
SearchOriginalWitness ==
  /\ dym.last = "searchOriginal" /\ dym.ctl
  /\ dym.refs.wasAutomaticallyCorrected
  /\ calls = <<>>

\* ---- no engine ----

Components == <<pagerC, dym, facetC, resultList, searchBox, sortC, summary>>

\* C26: while no engine exists, every factory has returned null, no
\* subscription is active and no handler has made a library call.
NoEngineNoEffect ==
  ~engineInstance.built =>
    /\ calls = <<>>
    /\ ~page.engine.built /\ ~resultList.engine.built
    /\ \A i \in 1..Len(Components) : ~Components[i].ctl
    /\ ~pagerC.sub /\ ~dym.sub /\ ~facetC.sub /\ ~resultList.sub
    /\ ~searchBox.sub /\ ~summary.sub

\* The search box was mounted without an engine, text was typed and submitted.
NoEngineWitness ==
  /\ ~engineInstance.built /\ uses > 0
  /\ searchBox.phase = "mounted" /\ searchBox.last = "onSubmit"
  /\ searchBox.query # ""
  /\ calls = <<>>

\* ---- the SearchBox component ----

\* C27: selectedIndex is -1 or a valid index into the current suggestions.
SelectedIndexValid ==
  \/ searchBox.selectedIndex = -1
  \/ /\ 0 <= searchBox.selectedIndex
     /\ searchBox.selectedIndex < Len(searchBox.suggestions)

\* C28: with a controller present, a submit gesture makes exactly one library
\* call: selectSuggestion(rawValue) when selectedIndex points at an existing
\* suggestion, submit() otherwise; and the dropdown is hidden afterwards.
SubmitInvokesExactlyOne ==
  [][(searchBox'.last = "onSubmit" /\ searchBox.ctl) =>
       LET index == searchBox.selectedIndex
           list  == searchBox.suggestions
       IN  /\ Len(calls') = Len(calls) + 1
           /\ SubSeq(calls', 1, Len(calls)) = calls
           /\ calls'[Len(calls')] =
                IF 0 <= index /\ index < Len(list)
                  THEN [method |-> "searchBox.selectSuggestion",
                        arg |-> list[index + 1]]
                  ELSE [method |-> "searchBox.submit", arg |-> ""]
           /\ ~searchBox'.showSuggestions]_vars

\* Enter was pressed on a highlighted suggestion.
SubmitWitness ==
  /\ searchBox.last = "onSubmit" /\ searchBox.ctl
  /\ Len(calls) = 1 /\ calls[1].method = "searchBox.selectSuggestion"
  /\ ~searchBox.showSuggestions

\* C30: while the input keeps the focus, showSuggestions stays true until a
\* submit or a suggestion selection.
SuggestionsStayShown ==
  [][(/\ searchBox.focused /\ searchBox.showSuggestions
      /\ searchBox'.focused
      /\ searchBox'.last \notin {"onSubmit", "selectSuggestion"})
       => searchBox'.showSuggestions]_vars

\* ---- subscriptions ----

\* C29: a component holds a subscription only while it is mounted, and the
\* refs its listener writes change only while it is mounted (or when a new
\* instance is set up).
SubscriptionsFollowMount ==
  [][/\ pagerC'.sub => pagerC'.phase = "mounted"
     /\ dym'.sub => dym'.phase = "mounted"
     /\ facetC'.sub => facetC'.phase = "mounted"
     /\ resultList'.sub => resultList'.phase = "mounted"
     /\ searchBox'.sub => searchBox'.phase = "mounted"
     /\ summary'.sub => summary'.phase = "mounted"
     /\ pagerC'.refs # pagerC.refs =>
          pagerC.phase = "mounted" \/ pagerC'.phase = "setup"
     /\ dym'.refs # dym.refs => dym.phase = "mounted" \/ dym'.phase = "setup"
     /\ facetC'.refs # facetC.refs =>
          facetC.phase = "mounted" \/ facetC'.phase = "setup"
     /\ resultList'.refs # resultList.refs =>
          resultList.phase = "mounted" \/ resultList'.phase = "controllers"
     /\ searchBox'.suggestions # searchBox.suggestions =>
          searchBox.phase = "mounted" \/ searchBox'.phase = "setup"
     /\ summary'.refs # summary.refs =>
          summary.phase = "mounted" \/ summary'.phase = "setup"]_vars

\* The pager was unmounted after its listener had run.
SubscriptionsWitness ==
  /\ pagerC.phase = "unmounted" /\ ~pagerC.sub /\ pagerC.ctl
  /\ pagerC.refs # PagerRefsInit

====
